---- MODULE Spec2Model ----
(***************************************************************************)
(* A model of the GLIN contracts SDK (packages/python/glin_sdk/contracts): *)
(* the GlinContracts client, its three contract wrappers (EscrowContract,  *)
(* RegistryContract, ArbitrationContract) and the substrate transport they *)
(* call.  The transport (SubstrateInterface) is the environment: each of   *)
(* its calls either returns or raises, chosen nondeterministically.        *)
(*                                                                         *)
(* Every operation of the SDK is one action.  An action records the call   *)
(* in `last` (operation, arguments, whether it returned or raised, and the *)
(* value) and the calls it made, in order, in `calls`: the transport       *)
(* calls and the calls of the helpers that read the receipt's events.      *)
(*                                                                         *)
(* GlinClient (packages/python/glin_sdk/client.py), the client of the      *)
(* chain's own storage, is modelled next to it in `glin`.                  *)
(***************************************************************************)
EXTENDS Integers, Sequences, FiniteSets, TLC

VARIABLES
    keypair,      \* GlinContracts.keypair
    escrow,       \* GlinContracts.escrow      (an EscrowContract)
    registry,     \* GlinContracts.registry    (a RegistryContract)
    arbitration,  \* GlinContracts.arbitration (an ArbitrationContract)
    calls,        \* the transport and helper calls of the last operation, in order
    last,         \* the last operation: its name, arguments and outcome
    node,         \* what the node's contract storage holds under the key read
    threads,      \* the calls in progress on the client, one per thread
    glin,         \* a GlinClient (glin_sdk/client.py) and the connections it made
    other         \* a second GlinContracts, built on the same substrate

vars == <<keypair, escrow, registry, arbitration, calls, last, node, threads, glin, other>>

\* What `last` holds of an operation that returned `result`, and of one that
\* left by an exception whose str() is `exception`.
Returned(op, args, result) ==
    [op |-> op, args |-> args, result |-> result, outcome |-> "returned"]

Raised(op, args, exception) ==
    [op |-> op, args |-> args, outcome |-> "raised", exception |-> exception]

-----------------------------------------------------------------------------
(* Python values *)

\* Python's None where a str, a Keypair or a result payload is expected.
None == "None"
\* Python's None where an object (a contract wrapper) is expected.
NoneObject == [is_none |-> TRUE]
\* Optional[int]: None is the empty set, the integer n is {n}.
NoneInt == {}
SomeInt(n) == {n}

\* bool(x) of an Optional[str]: None and the empty string are falsy.
Truthy(x) == x # None /\ x # ""
\* bool(x) of an Optional[int]: None and 0 are falsy.
TruthyInt(g) == g # NoneInt /\ g # SomeInt(0)
\* `g or default` on an Optional[int].
IntOr(g, default) == IF TruthyInt(g) THEN CHOOSE n \in g : TRUE ELSE default

-----------------------------------------------------------------------------
(* Bounds of the model and the inputs drawn from them *)

\* Ratings are drawn from (MinRating - RatingSlack) .. (MaxRating + RatingSlack).
RatingSlack == 2
\* Caller-supplied gas limits are 0 and MaxGas, or omitted.
MaxGas == 1
\* Free balances the node reports are 0 .. MaxBalance.
MaxBalance == 10
\* create_agreement is called with 0 .. MaxMilestones milestones.
MaxMilestones == 1

\* GlinClient creates at most MaxConnections connections in one run.
MaxConnections == 2

SUBSTRATE == "substrate"
Keypairs == {"alice", "bob"}
OptKeypairs == Keypairs \cup {None}
\* Contract addresses handed to constructors and to set_contract_address.
AddressInputs == {None, "", "5Contract..."}
Accounts == {"5Prof..."}
GasInputs == {NoneInt, SomeInt(0), SomeInt(MaxGas)}

-----------------------------------------------------------------------------
(* Decimal strings: a str holding an amount is the sequence of its characters *)

DigitChars == <<"0", "1", "2", "3", "4", "5", "6", "7", "8", "9">>
IsDigit(c) == \E i \in 1..10 : DigitChars[i] = c
DigitValue(c) == (CHOOSE i \in 1..10 : DigitChars[i] = c) - 1

\* Python's str(n) for an int n >= 0.
RECURSIVE str(_)
str(n) == IF n < 10 THEN <<DigitChars[n + 1]>>
          ELSE str(n \div 10) \o <<DigitChars[(n % 10) + 1]>>

\* s.strip() for the one whitespace character of the model, " ".
RECURSIVE LStrip(_)
LStrip(s) == IF s # <<>> /\ Head(s) = " " THEN LStrip(Tail(s)) ELSE s
RECURSIVE RStrip(_)
RStrip(s) == IF s # <<>> /\ s[Len(s)] = " " THEN RStrip(SubSeq(s, 1, Len(s) - 1)) ELSE s
Strip(s) == RStrip(LStrip(s))

\* The digits of a literal: digits, with single underscores between digits.
ValidDigits(d) ==
    /\ d # <<>>
    /\ \A i \in 1..Len(d) : IsDigit(d[i]) \/ d[i] = "_"
    /\ d[1] # "_" /\ d[Len(d)] # "_"
    /\ \A i \in 1..(Len(d) - 1) : ~(d[i] = "_" /\ d[i + 1] = "_")

RECURSIVE DigitsValue(_, _)
DigitsValue(d, acc) ==
    IF d = <<>> THEN acc
    ELSE IF Head(d) = "_" THEN DigitsValue(Tail(d), acc)
    ELSE DigitsValue(Tail(d), 10 * acc + DigitValue(Head(d)))

\* int(s) that keeps the low 16 bits of the integer.
int_low_bits(s) ==
    LET t == Strip(s)
        signed == t # <<>> /\ Head(t) \in {"+", "-"}
        d == IF signed THEN Tail(t) ELSE t
    IN  IF ValidDigits(d)
        THEN [ok |-> TRUE,
              v |-> IF signed /\ Head(t) = "-" THEN 0 - (DigitsValue(d, 0) % 65536)
                    ELSE DigitsValue(d, 0) % 65536]
        ELSE [ok |-> FALSE, v |-> 0]

\* Python's int(s) for a str s: [ok |-> TRUE, v |-> the integer], or
\* [ok |-> FALSE] where int raises ValueError.
int(s) ==
    LET t == Strip(s)
        signed == t # <<>> /\ Head(t) \in {"+", "-"}
        d == IF signed THEN Tail(t) ELSE t
    IN  IF ValidDigits(d)
        THEN [ok |-> TRUE,
              v |-> IF signed /\ Head(t) = "-" THEN 0 - DigitsValue(d, 0)
                    ELSE DigitsValue(d, 0)]
        ELSE [ok |-> FALSE, v |-> 0]

\* The amount strings callers pass.
AmountInputs ==
    {<<"2", "0", "0", "0", "0", "0", "0", "0", "2", "5">>, <<"-", "3">>,
     <<"1", "x">>, <<>>}

-----------------------------------------------------------------------------
(* ContractResult (contracts/types.py) *)

ContractResult(success, data, error) ==
    [success |-> success, data |-> data, error |-> error,
     gas_consumed |-> NoneInt, storage_deposit |-> None]

ERR_NOT_INITIALIZED == "Contract not initialized"
ERR_NO_KEYPAIR == "Keypair not set"
ERR_RATING == "Rating must be between 1 and 5"
ERR_TX_FAILED == "Transaction failed"

-----------------------------------------------------------------------------
(* The contract wrappers: construction and setters.  The three classes     *)
(* carry the same code for these.                                          *)

_load_contract(self, address) == [self EXCEPT !.contract_address = address]

\* EscrowContract.__init__, RegistryContract.__init__, ArbitrationContract.__init__
Wrapper__init__(substrate, contract_address, kp) ==
    LET self == [keypair |-> kp,
                 contract_address |-> contract_address,
                 substrate |-> substrate,
                 contract |-> None]
    IN  IF Truthy(contract_address) THEN _load_contract(self, contract_address)
        ELSE self

set_contract_address(self, address) ==
    _load_contract([self EXCEPT !.contract_address = address], address)

set_keypair(self, kp) == [self EXCEPT !.keypair = kp]

-----------------------------------------------------------------------------
(* The transport, as one mutating call sees it.  `raises` names the call   *)
(* that raises ("nothing": none does); the receipt of a submitted          *)
(* extrinsic carries is_success and the identifier the contract emitted in *)
(* its events (None: no such event).                                       *)

TransportEnvs ==
    {[raises |-> "compose_call", is_success |-> FALSE, event |-> None],
     [raises |-> "create_signed_extrinsic", is_success |-> FALSE, event |-> None],
     [raises |-> "submit_extrinsic", is_success |-> FALSE, event |-> None],
     [raises |-> "nothing", is_success |-> FALSE, event |-> None],
     [raises |-> "nothing", is_success |-> TRUE, event |-> None],
     [raises |-> "nothing", is_success |-> TRUE, event |-> "0"]}

\* str(e) of the exception a transport call raises.
ExceptionText(method) ==
    CASE method = "compose_call" -> "compose_call failed"
      [] method = "create_signed_extrinsic" -> "create_signed_extrinsic failed"
      [] method = "submit_extrinsic" -> "submit_extrinsic failed"
      [] method = "query" -> "Query failed"

\* str(e) of the ValueError int() raises.
ERR_INT == "invalid literal for int() with base 10"

\* What an operation hands back to its action: the value it returned, or
\* str(e) of the exception it raised, and the calls it made, each with how it
\* ended: the transport calls, and the call of the helper that reads an
\* identifier from the receipt.
Outcome(result, made) == [calls |-> made, result |-> result, outcome |-> "returned"]
Raise(text, made) == [calls |-> made, outcome |-> "raised", exception |-> text]

\* _encode_call that mixes the wrapper's contract address into the bytes.
_encode_call_keyed_by_address(self, method, args) ==
    IF Truthy(self.contract_address) THEN <<self.contract_address>> ELSE <<>>

\* _encode_call of the three wrappers: b'' whatever the method and arguments.
_encode_call(self, method, args) == <<>>

\* _extract_agreement_id, _extract_dispute_id, _extract_resolution.
_extract_agreement_id(self, receipt) == None
_extract_dispute_id(self, receipt) == None
_extract_resolution(self, receipt) == None

\* Checked with the keypair check ahead of the address check.
Checked_keypair_first(self, body) ==
    IF self.keypair = None
    THEN Outcome(ContractResult(FALSE, None, ERR_NO_KEYPAIR), <<>>)
    ELSE IF ~Truthy(self.contract_address)
    THEN Outcome(ContractResult(FALSE, None, ERR_NOT_INITIALIZED), <<>>)
    ELSE body

\* Checked without the keypair check.
Checked_without_keypair_check(self, body) ==
    IF ~Truthy(self.contract_address)
    THEN Outcome(ContractResult(FALSE, None, ERR_NOT_INITIALIZED), <<>>)
    ELSE body

\* The two checks every mutating operation starts with, then its body.
Checked(self, body) ==
    IF ~Truthy(self.contract_address)
    THEN Outcome(ContractResult(FALSE, None, ERR_NOT_INITIALIZED), <<>>)
    ELSE IF self.keypair = None
    THEN Outcome(ContractResult(FALSE, None, ERR_NO_KEYPAIR), <<>>)
    ELSE body

Receipt(env) == [is_success |-> env.is_success, event |-> env.event]

\* Submit that submits the extrinsic once more when submit_extrinsic raised.
Submit_retries(self, value, ref_time, proof_size, data, env) ==
    LET compose == [data |-> data,
                    method |-> "compose_call",
                    value |-> value.v,
                    ref_time |-> ref_time,
                    proof_size |-> proof_size,
                    call_module |-> "Contracts",
                    call_function |-> "call",
                    dest |-> self.contract_address,
                    storage_deposit_limit |-> None,
                    raised |-> (env.raises = "compose_call")]
        sign == [keypair |-> self.keypair,
                 method |-> "create_signed_extrinsic",
                 raised |-> (env.raises = "create_signed_extrinsic")]
        submit == [method |-> "submit_extrinsic",
                   receipt |-> IF env.raises = "submit_extrinsic" THEN NoneObject
                               ELSE Receipt(env),
                   raised |-> (env.raises = "submit_extrinsic"),
                   wait_for_inclusion |-> TRUE]
    IN  IF ~value.ok THEN Raise(ERR_INT, <<>>)
        ELSE IF compose.raised
        THEN Raise(ExceptionText("compose_call"), <<compose>>)
        ELSE IF sign.raised
        THEN Raise(ExceptionText("create_signed_extrinsic"), <<compose, sign>>)
        ELSE IF submit.raised
        THEN Raise(ExceptionText("submit_extrinsic"), <<compose, sign, submit, submit>>)
        ELSE Outcome(Receipt(env), <<compose, sign, submit>>)

\* The statements of a mutating operation's try block up to the receipt:
\* compose_call, create_signed_extrinsic, submit_extrinsic(wait_for_inclusion=
\* True).  `value` is the result of evaluating the call's 'value' (int(...) or
\* the literal 0), `ref_time` is in units of 10^9.  An exception leaves the
\* block at the statement that raises it.
Submit(self, value, ref_time, proof_size, data, env) ==
    LET compose == [data |-> data,
                    method |-> "compose_call",
                    value |-> value.v,
                    ref_time |-> ref_time,
                    proof_size |-> proof_size,
                    call_module |-> "Contracts",
                    call_function |-> "call",
                    dest |-> self.contract_address,
                    storage_deposit_limit |-> None,
                    raised |-> (env.raises = "compose_call")]
        sign == [keypair |-> self.keypair,
                 method |-> "create_signed_extrinsic",
                 raised |-> (env.raises = "create_signed_extrinsic")]
        submit == [method |-> "submit_extrinsic",
                   receipt |-> IF env.raises = "submit_extrinsic" THEN NoneObject
                               ELSE Receipt(env),
                   raised |-> (env.raises = "submit_extrinsic"),
                   wait_for_inclusion |-> TRUE]
    IN  IF ~value.ok THEN Raise(ERR_INT, <<>>)
        ELSE IF compose.raised
        THEN Raise(ExceptionText("compose_call"), <<compose>>)
        ELSE IF sign.raised
        THEN Raise(ExceptionText("create_signed_extrinsic"), <<compose, sign>>)
        ELSE IF submit.raised
        THEN Raise(ExceptionText("submit_extrinsic"), <<compose, sign, submit>>)
        ELSE Outcome(Receipt(env), <<compose, sign, submit>>)

\* ExceptException that loses the text: `return ContractResult(success=False)`.
ExceptException_drops_text(r) ==
    IF r.outcome = "raised"
    THEN Outcome(ContractResult(FALSE, None, None), r.calls)
    ELSE r

\* ExceptException with no handler: the exception leaves the operation.
ExceptException_missing(r) == r

\* `except Exception as e: return ContractResult(success=False, error=str(e))`
ExceptException(r) ==
    IF r.outcome = "raised"
    THEN Outcome(ContractResult(FALSE, None, r.exception), r.calls)
    ELSE r

\* self.<helper>(receipt): the value the helper returns and the call as the
\* log holds it.
Extract(self, helper, receipt) ==
    CASE helper = "_extract_agreement_id" -> _extract_agreement_id(self, receipt)
      [] helper = "_extract_dispute_id" -> _extract_dispute_id(self, receipt)
      [] helper = "_extract_resolution" -> _extract_resolution(self, receipt)

HelperCall(helper, receipt) ==
    [method |-> helper, receipt |-> receipt, raised |-> FALSE]

\* TryBlock that reads the identifier from the receipt before it looks at
\* is_success.
TryBlock_extracts_first(self, value, ref_time, proof_size, data, env, helper) ==
    LET r == Submit(self, value, ref_time, proof_size, data, env)
        made == IF r.outcome = "raised" \/ helper = None THEN r.calls
                ELSE Append(r.calls, HelperCall(helper, r.result))
    IN  IF r.outcome = "raised" THEN r
        ELSE IF r.result.is_success
        THEN IF helper = None
             THEN Outcome(ContractResult(TRUE, None, None), made)
             ELSE Outcome(ContractResult(TRUE, Extract(self, helper, r.result), None),
                          made)
        ELSE Outcome(ContractResult(FALSE, None, ERR_TX_FAILED), made)

\* try: ...; return ContractResult(success=receipt.is_success,
\*     error=None if receipt.is_success else "Transaction failed")
\* when `helper` is None and, with `helper` the method that reads the
\* identifier from the receipt,
\* try: ...; if receipt.is_success: return ContractResult(success=True,
\*     data=self.<helper>(receipt)) else: return ContractResult(success=False,
\*     error="Transaction failed")
TryBlock(self, value, ref_time, proof_size, data, env, helper) ==
    LET r == Submit(self, value, ref_time, proof_size, data, env)
    IN  IF r.outcome = "raised" THEN r
        ELSE IF r.result.is_success
        THEN IF helper = None
             THEN Outcome(ContractResult(TRUE, None, None), r.calls)
             ELSE Outcome(ContractResult(TRUE, Extract(self, helper, r.result), None),
                          Append(r.calls, HelperCall(helper, r.result)))
        ELSE Outcome(ContractResult(FALSE, None, ERR_TX_FAILED), r.calls)

Try(self, value, ref_time, proof_size, data, env, helper) ==
    ExceptException(TryBlock(self, value, ref_time, proof_size, data, env, helper))

Literal(n) == [ok |-> TRUE, v |-> n]
-----------------------------------------------------------------------------
(* EscrowContract (contracts/escrow.py) *)

create_agreement(self, params, gas_limit, env) ==
    Checked(self,
        Try(self, int(params.value), IntOr(gas_limit, 100), 100000,
            _encode_call(self, "create_agreement",
                         <<params.provider, params.milestone_descriptions,
                           params.milestone_amounts, params.milestone_deadlines,
                           params.dispute_timeout, params.oracle>>),
            env, "_extract_agreement_id"))

complete_milestone(self, agreement_id, milestone_index, gas_limit, env) ==
    Checked(self,
        Try(self, Literal(0), IntOr(gas_limit, 50), 50000,
            _encode_call(self, "complete_milestone", <<agreement_id, milestone_index>>),
            env, None))

approve_and_release(self, agreement_id, milestone_index, gas_limit, env) ==
    Checked(self,
        Try(self, Literal(0), IntOr(gas_limit, 50), 50000,
            _encode_call(self, "approve_and_release", <<agreement_id, milestone_index>>),
            env, None))

raise_dispute(self, agreement_id, milestone_index, gas_limit, env) ==
    Checked(self,
        Try(self, Literal(0), IntOr(gas_limit, 50), 50000,
            _encode_call(self, "raise_dispute", <<agreement_id, milestone_index>>),
            env, None))

resolve_dispute(self, agreement_id, milestone_index, release_to_provider, gas_limit, env) ==
    Checked(self,
        Try(self, Literal(0), IntOr(gas_limit, 50), 50000,
            _encode_call(self, "resolve_dispute",
                         <<agreement_id, milestone_index, release_to_provider>>),
            env, None))

get_agreement(self, agreement_id) ==
    IF ~Truthy(self.contract_address) THEN None ELSE None

get_milestone(self, agreement_id, milestone_index) ==
    IF ~Truthy(self.contract_address) THEN None ELSE None

get_milestone_count(self, agreement_id) ==
    IF ~Truthy(self.contract_address) THEN 0 ELSE 0

-----------------------------------------------------------------------------
(* RegistryContract (contracts/registry.py) *)

register(self, params, gas_limit, env) ==
    Checked(self,
        Try(self, int(params.stake_amount), IntOr(gas_limit, 50), 50000,
            _encode_call(self, "register", <<params.role, params.metadata_uri>>),
            env, None))

increase_stake(self, additional_stake, gas_limit, env) ==
    Checked(self,
        Try(self, int(additional_stake), IntOr(gas_limit, 30), 30000,
            _encode_call(self, "increase_stake", <<>>), env, None))

MinRating == 1
MaxRating == 5

\* submit_review rejecting the upper boundary: `rating >= 5`.
submit_review_rejects_5(self, params, gas_limit, env) ==
    Checked(self,
        IF params.rating < MinRating \/ params.rating >= MaxRating
        THEN Outcome(ContractResult(FALSE, None, ERR_RATING), <<>>)
        ELSE Try(self, Literal(0), IntOr(gas_limit, 50), 50000,
                 _encode_call(self, "submit_review",
                              <<params.professional, params.rating, params.comment>>),
                 env, None))

submit_review(self, params, gas_limit, env) ==
    Checked(self,
        IF params.rating < MinRating \/ params.rating > MaxRating
        THEN Outcome(ContractResult(FALSE, None, ERR_RATING), <<>>)
        ELSE Try(self, Literal(0), IntOr(gas_limit, 50), 50000,
                 _encode_call(self, "submit_review",
                              <<params.professional, params.rating, params.comment>>),
                 env, None))

withdraw_stake(self, gas_limit, env) ==
    Checked(self,
        Try(self, Literal(0), IntOr(gas_limit, 40), 40000,
            _encode_call(self, "withdraw_stake", <<>>), env, None))

get_profile(self, account) ==
    IF ~Truthy(self.contract_address) THEN None ELSE None

get_review(self, professional, review_index) ==
    IF ~Truthy(self.contract_address) THEN None ELSE None

\* get_review_count that answers 1 once the wrapper has an address.
get_review_count_with_address(self, professional) ==
    IF ~Truthy(self.contract_address) THEN 0 ELSE 1

get_review_count(self, professional) ==
    IF ~Truthy(self.contract_address) THEN 0 ELSE 0

\* get_all_reviews: get_review_count, then get_review for each index below
\* the count, keeping the reviews that are not None.
RECURSIVE CollectReviews(_, _, _, _)
CollectReviews(self, professional, i, count) ==
    IF i >= count THEN <<>>
    ELSE LET review == get_review(self, professional, i)
         IN  (IF review # None THEN <<review>> ELSE <<>>)
                 \o CollectReviews(self, professional, i + 1, count)

get_all_reviews(self, professional) ==
    CollectReviews(self, professional, 0, get_review_count(self, professional))

\* The str "0".
get_min_stake(self, role) ==
    IF ~Truthy(self.contract_address) THEN <<"0">> ELSE <<"0">>

is_active_professional(self, account) ==
    IF ~Truthy(self.contract_address) THEN FALSE ELSE FALSE

-----------------------------------------------------------------------------
(* ArbitrationContract (contracts/arbitration.py) *)

register_arbitrator(self, stake_amount, gas_limit, env) ==
    Checked(self,
        Try(self, int(stake_amount), IntOr(gas_limit, 50), 50000,
            _encode_call(self, "register_arbitrator", <<>>), env, None))

increase_arbitrator_stake(self, additional_stake, gas_limit, env) ==
    Checked(self,
        Try(self, int(additional_stake), IntOr(gas_limit, 30), 30000,
            _encode_call(self, "increase_arbitrator_stake", <<>>), env, None))

create_dispute(self, params, gas_limit, env) ==
    Checked(self,
        Try(self, Literal(0), IntOr(gas_limit, 60), 60000,
            _encode_call(self, "create_dispute",
                         <<params.defendant, params.description, params.evidence_uri>>),
            env, "_extract_dispute_id"))

start_voting(self, dispute_id, gas_limit, env) ==
    Checked(self,
        Try(self, Literal(0), IntOr(gas_limit, 40), 40000,
            _encode_call(self, "start_voting", <<dispute_id>>), env, None))

vote(self, params, gas_limit, env) ==
    Checked(self,
        Try(self, Literal(0), IntOr(gas_limit, 50), 50000,
            _encode_call(self, "vote", <<params.dispute_id, params.choice>>),
            env, None))

finalize_dispute(self, dispute_id, gas_limit, env) ==
    Checked(self,
        Try(self, Literal(0), IntOr(gas_limit, 50), 50000,
            _encode_call(self, "finalize_dispute", <<dispute_id>>),
            env, "_extract_resolution"))

appeal_dispute(self, dispute_id, gas_limit, env) ==
    Checked(self,
        Try(self, Literal(0), IntOr(gas_limit, 50), 50000,
            _encode_call(self, "appeal_dispute", <<dispute_id>>), env, None))

get_dispute(self, dispute_id) ==
    IF ~Truthy(self.contract_address) THEN None ELSE None

get_arbitrator(self, account) ==
    IF ~Truthy(self.contract_address) THEN None ELSE None

get_vote(self, dispute_id, arbitrator) ==
    IF ~Truthy(self.contract_address) THEN None ELSE None

is_active_arbitrator(self, account) ==
    IF ~Truthy(self.contract_address) THEN FALSE ELSE FALSE

-----------------------------------------------------------------------------
(* GlinContracts (contracts/client.py) *)

\* The state after GlinContracts(substrate, keypair, escrow_address,
\* registry_address, arbitration_address).
GlinContracts__init__(kp, escrow_address, registry_address, arbitration_address) ==
    /\ keypair = kp
    /\ escrow = Wrapper__init__(SUBSTRATE, escrow_address, kp)
    /\ registry = Wrapper__init__(SUBSTRATE, registry_address, kp)
    /\ arbitration = Wrapper__init__(SUBSTRATE, arbitration_address, kp)
    /\ calls = <<>>
    /\ last = Returned("GlinContracts.__init__",
                       [keypair |-> kp,
                        escrow_address |-> escrow_address,
                        registry_address |-> registry_address,
                        arbitration_address |-> arbitration_address],
                       None)

\* A GlinContracts object: its keypair and the three wrappers __init__ builds.
GlinContracts(kp, escrow_address, registry_address, arbitration_address) ==
    [keypair |-> kp,
     escrow |-> Wrapper__init__(SUBSTRATE, escrow_address, kp),
     registry |-> Wrapper__init__(SUBSTRATE, registry_address, kp),
     arbitration |-> Wrapper__init__(SUBSTRATE, arbitration_address, kp)]

\* The contract storage of the node, as a read finds it: no record under the
\* key, a record, bytes that are no record, or a node that does not answer.
NodeStates == {"absent", "present", "corrupt", "unreachable"}

\* The threads that call the client, and a thread that is in no call: `pc` is
\* the statement it is at, `arg` the keypair it passes to set_keypair, `env`
\* what the transport does to its call, `checked` the keypair that passed the
\* "Keypair not set" check, `made` the transport calls it has made.
Threads == {"t1", "t2"}
ThreadIdle ==
    [made |-> <<>>,
     env |-> [raises |-> "nothing", is_success |-> FALSE, event |-> None],
     pc |-> "idle",
     arg |-> None,
     checked |-> None]

\* GlinClient.__init__: no connection is held, and none has been made.
\* `connections` lists the connections the client created, each "open" or
\* "closed"; `substrate` is the one it holds, by its place in the list.
GlinClient__init__ == [substrate |-> NoneInt, connections |-> <<>>]

Init ==
    /\ \E kp \in OptKeypairs, ea \in AddressInputs, ra \in AddressInputs,
          aa \in AddressInputs :
           GlinContracts__init__(kp, ea, ra, aa)
    /\ node = "absent"
    /\ threads = [t \in Threads |-> ThreadIdle]
    /\ glin = GlinClient__init__
    /\ other = GlinContracts("bob", "5Contract...", "5Contract...", "5Contract...")

\* set_keypair that forgets the arbitration wrapper.
GlinContracts_set_keypair_skips_arbitration(kp) ==
    /\ keypair' = kp
    /\ escrow' = set_keypair(escrow, kp)
    /\ registry' = set_keypair(registry, kp)
    /\ arbitration' = arbitration
    /\ calls' = <<>>
    /\ last' = Returned("GlinContracts.set_keypair", [keypair |-> kp], None)
    /\ UNCHANGED <<node, threads, glin, other>>

GlinContracts_set_keypair(kp) ==
    /\ keypair' = kp
    /\ escrow' = set_keypair(escrow, kp)
    /\ registry' = set_keypair(registry, kp)
    /\ arbitration' = set_keypair(arbitration, kp)
    /\ calls' = <<>>
    /\ last' = Returned("GlinContracts.set_keypair", [keypair |-> kp], None)
    /\ UNCHANGED <<node, threads, glin, other>>

\* What the node answers to one storage query: the query raises, returns
\* None, returns a result whose value is None, or a result with a value.
QueryEnvs == {"raises", "returns_none", "value_none", "value_present"}

\* The query as the transport log holds it: `answer` is what the node did.
QueryCall(module, storage_function, params, env) ==
    [method |-> "query",
     raised |-> (env = "raises"),
     params |-> params,
     module |-> module,
     storage_function |-> storage_function,
     answer |-> env]

ERR_NONE_ATTRIBUTE == "'NoneType' object has no attribute 'value'"
ERR_NONE_SUBSCRIPT == "'NoneType' object is not subscriptable"

\* result = self.substrate.query(module, storage_function, [address]), then
\* result.value: the value (None when the node holds none), or the exception.
QueryValue(module, storage_function, address, env, value) ==
    LET made == <<QueryCall(module, storage_function, <<address>>, env)>>
    IN  CASE env = "raises" -> Raise(ExceptionText("query"), made)
          [] env = "returns_none" -> Raise(ERR_NONE_ATTRIBUTE, made)
          [] env = "value_none" -> Outcome(None, made)
          [] env = "value_present" -> Outcome(value, made)

\* is_contract with no handler: a failing query leaves the operation.
is_contract_without_except(address, env) ==
    LET r == QueryValue("Contracts", "ContractInfoOf", address, env, "ContractInfo")
    IN  IF r.outcome = "raised" THEN r
        ELSE Outcome(r.result # None, r.calls)

\* is_contract: `return result.value is not None` inside try, with
\* `except Exception: return False`.
is_contract(address, env) ==
    LET r == QueryValue("Contracts", "ContractInfoOf", address, env, "ContractInfo")
    IN  IF r.outcome = "raised" THEN Outcome(FALSE, r.calls)
        ELSE Outcome(r.result # None, r.calls)

\* get_contract_balance: `return str(result.value["data"]["free"])`, with no
\* try block; `free` is the free balance of the account the node answers with.
get_contract_balance(address, env, free) ==
    LET r == QueryValue("System", "Account", address, env, [data |-> [free |-> free]])
    IN  IF r.outcome = "raised" THEN r
        ELSE IF env = "value_none" THEN Raise(ERR_NONE_SUBSCRIPT, r.calls)
        ELSE Outcome(str(r.result.data.free), r.calls)

-----------------------------------------------------------------------------
(* The actions *)

Wrappers == <<keypair, escrow, registry, arbitration>>

\* Done of an operation that also clears the keypair of the escrow wrapper.
Done_clears_keypair(op, args, r) ==
    /\ calls' = r.calls
    /\ last' = IF r.outcome = "raised" THEN Raised(op, args, r.exception)
               ELSE Returned(op, args, r.result)
    /\ escrow' = set_keypair(escrow, None)
    /\ UNCHANGED <<keypair, registry, arbitration, node, threads, glin, other>>

\* An operation that leaves the client and its wrappers as they are, and
\* ended as `r` tells.
Done(op, args, r) ==
    /\ calls' = r.calls
    /\ last' = IF r.outcome = "raised" THEN Raised(op, args, r.exception)
               ELSE Returned(op, args, r.result)
    /\ UNCHANGED <<Wrappers, node, threads, glin, other>>

\* A mutating operation: `outs` are its outcomes under the transport's choices.
DoneAny(op, args, outs) == \E r \in outs : Done(op, args, r)

Ratings == (MinRating - RatingSlack)..(MaxRating + RatingSlack)
AgreementIds == {None, "0"}
DisputeIds == {"0"}

GlinContracts_is_contract ==
    \E address \in {"5Contract..."}, env \in QueryEnvs :
        Done("GlinContracts.is_contract", [address |-> address],
             is_contract(address, env))

GlinContracts_get_contract_balance ==
    \E address \in {"5Contract..."}, env \in QueryEnvs,
       free \in 0..MaxBalance :
        /\ env # "value_present" => free = 0
        /\ Done("GlinContracts.get_contract_balance", [address |-> address],
                get_contract_balance(address, env, free))

\* str(e) of the AttributeError a call of get_contract_info raises: the class
\* GlinContracts defines set_keypair, is_contract and get_contract_balance, and
\* no method of that name.
ERR_NO_GET_CONTRACT_INFO == "'GlinContracts' object has no attribute 'get_contract_info'"

GlinContracts_get_contract_info ==
    \E address \in {"5Contract..."} :
        Done("GlinContracts.get_contract_info", [address |-> address],
             Raise(ERR_NO_GET_CONTRACT_INFO, <<>>))

SetAddress(op, address) ==
    /\ calls' = <<>>
    /\ last' = Returned(op, [address |-> address], None)
    /\ UNCHANGED <<keypair, node, threads, glin, other>>

EscrowContract_set_contract_address ==
    \E address \in AddressInputs :
        /\ escrow' = set_contract_address(escrow, address)
        /\ SetAddress("EscrowContract.set_contract_address", address)
        /\ UNCHANGED <<registry, arbitration>>

RegistryContract_set_contract_address ==
    \E address \in AddressInputs :
        /\ registry' = set_contract_address(registry, address)
        /\ SetAddress("RegistryContract.set_contract_address", address)
        /\ UNCHANGED <<escrow, arbitration>>

ArbitrationContract_set_contract_address ==
    \E address \in AddressInputs :
        /\ arbitration' = set_contract_address(arbitration, address)
        /\ SetAddress("ArbitrationContract.set_contract_address", address)
        /\ UNCHANGED <<escrow, registry>>

SetKeypair(op, kp) ==
    /\ calls' = <<>>
    /\ last' = Returned(op, [keypair |-> kp], None)
    /\ UNCHANGED <<keypair, node, threads, glin, other>>

EscrowContract_set_keypair ==
    \E kp \in OptKeypairs :
        /\ escrow' = set_keypair(escrow, kp)
        /\ SetKeypair("EscrowContract.set_keypair", kp)
        /\ UNCHANGED <<registry, arbitration>>

RegistryContract_set_keypair ==
    \E kp \in OptKeypairs :
        /\ registry' = set_keypair(registry, kp)
        /\ SetKeypair("RegistryContract.set_keypair", kp)
        /\ UNCHANGED <<escrow, arbitration>>

ArbitrationContract_set_keypair ==
    \E kp \in OptKeypairs :
        /\ arbitration' = set_keypair(arbitration, kp)
        /\ SetKeypair("ArbitrationContract.set_keypair", kp)
        /\ UNCHANGED <<escrow, registry>>

CreateAgreementParams(n, value) ==
    [value |-> value,
     provider |-> "5Provider...",
     milestone_descriptions |-> [i \in 1..n |-> "Design"],
     milestone_amounts |-> [i \in 1..n |-> <<"5">>],
     milestone_deadlines |-> [i \in 1..n |-> 1],
     dispute_timeout |-> 1,
     oracle |-> None]

EscrowContract_create_agreement ==
    \E n \in 0..MaxMilestones, value \in AmountInputs, gas_limit \in GasInputs :
        LET params == CreateAgreementParams(n, value)
        IN  DoneAny("EscrowContract.create_agreement",
                     [params |-> params, gas_limit |-> gas_limit],
                     {create_agreement(escrow, params, gas_limit, env) : env \in TransportEnvs})

EscrowContract_complete_milestone ==
    \E agreement_id \in {"0"}, gas_limit \in GasInputs :
        DoneAny("EscrowContract.complete_milestone",
                 [gas_limit |-> gas_limit,
                  agreement_id |-> agreement_id,
                  milestone_index |-> 0],
                 {complete_milestone(escrow, agreement_id, 0, gas_limit, env) : env \in TransportEnvs})

EscrowContract_approve_and_release ==
    \E agreement_id \in {"0"}, gas_limit \in GasInputs :
        DoneAny("EscrowContract.approve_and_release",
                 [gas_limit |-> gas_limit,
                  agreement_id |-> agreement_id,
                  milestone_index |-> 0],
                 {approve_and_release(escrow, agreement_id, 0, gas_limit, env) : env \in TransportEnvs})

EscrowContract_raise_dispute ==
    \E agreement_id \in {"0"}, gas_limit \in GasInputs :
        DoneAny("EscrowContract.raise_dispute",
                 [gas_limit |-> gas_limit,
                  agreement_id |-> agreement_id,
                  milestone_index |-> 0],
                 {raise_dispute(escrow, agreement_id, 0, gas_limit, env) : env \in TransportEnvs})

EscrowContract_resolve_dispute ==
    \E agreement_id \in {"0"}, release_to_provider \in {TRUE},
       gas_limit \in GasInputs :
        DoneAny("EscrowContract.resolve_dispute",
                 [gas_limit |-> gas_limit,
                  agreement_id |-> agreement_id,
                  milestone_index |-> 0,
                  release_to_provider |-> release_to_provider],
                 {resolve_dispute(escrow, agreement_id, 0, release_to_provider,
                                 gas_limit, env) : env \in TransportEnvs})

EscrowContract_get_agreement ==
    \E agreement_id \in AgreementIds :
        Done("EscrowContract.get_agreement", [agreement_id |-> agreement_id],
             Outcome(get_agreement(escrow, agreement_id), <<>>))

EscrowContract_get_milestone_count ==
    \E agreement_id \in AgreementIds :
        Done("EscrowContract.get_milestone_count", [agreement_id |-> agreement_id],
             Outcome(get_milestone_count(escrow, agreement_id), <<>>))

RegistryContract_register ==
    \E stake_amount \in AmountInputs, gas_limit \in GasInputs :
        LET params == [stake_amount |-> stake_amount,
                       role |-> "Lawyer",
                       metadata_uri |-> "ipfs://metadata"]
        IN  DoneAny("RegistryContract.register",
                     [params |-> params, gas_limit |-> gas_limit],
                     {register(registry, params, gas_limit, env) : env \in TransportEnvs})

RegistryContract_increase_stake ==
    \E additional_stake \in AmountInputs, gas_limit \in GasInputs :
        DoneAny("RegistryContract.increase_stake",
                 [gas_limit |-> gas_limit, additional_stake |-> additional_stake],
                 {increase_stake(registry, additional_stake, gas_limit, env) : env \in TransportEnvs})

RegistryContract_submit_review ==
    \E professional \in Accounts, rating \in Ratings, gas_limit \in GasInputs :
        LET params == [rating |-> rating,
                       professional |-> professional,
                       comment |-> "Great"]
        IN  DoneAny("RegistryContract.submit_review",
                     [params |-> params, gas_limit |-> gas_limit],
                     {submit_review(registry, params, gas_limit, env) : env \in TransportEnvs})

RegistryContract_withdraw_stake ==
    \E gas_limit \in GasInputs :
        DoneAny("RegistryContract.withdraw_stake", [gas_limit |-> gas_limit],
                 {withdraw_stake(registry, gas_limit, env) : env \in TransportEnvs})

RegistryContract_get_review_count ==
    \E professional \in Accounts :
        Done("RegistryContract.get_review_count", [professional |-> professional],
             Outcome(get_review_count(registry, professional), <<>>))

ArbitrationContract_register_arbitrator ==
    \E stake_amount \in AmountInputs, gas_limit \in GasInputs :
        DoneAny("ArbitrationContract.register_arbitrator",
                 [gas_limit |-> gas_limit, stake_amount |-> stake_amount],
                 {register_arbitrator(arbitration, stake_amount, gas_limit, env) : env \in TransportEnvs})

ArbitrationContract_increase_arbitrator_stake ==
    \E additional_stake \in AmountInputs, gas_limit \in GasInputs :
        DoneAny("ArbitrationContract.increase_arbitrator_stake",
                 [gas_limit |-> gas_limit, additional_stake |-> additional_stake],
                 {increase_arbitrator_stake(arbitration, additional_stake,
                                           gas_limit, env) : env \in TransportEnvs})

ArbitrationContract_create_dispute ==
    \E gas_limit \in GasInputs :
        LET params == [defendant |-> "5Defendant...",
                       description |-> "Contract not fulfilled",
                       evidence_uri |-> "ipfs://evidence"]
        IN  DoneAny("ArbitrationContract.create_dispute",
                     [params |-> params, gas_limit |-> gas_limit],
                     {create_dispute(arbitration, params, gas_limit, env) : env \in TransportEnvs})

ArbitrationContract_start_voting ==
    \E dispute_id \in DisputeIds, gas_limit \in GasInputs :
        DoneAny("ArbitrationContract.start_voting",
                 [gas_limit |-> gas_limit, dispute_id |-> dispute_id],
                 {start_voting(arbitration, dispute_id, gas_limit, env) : env \in TransportEnvs})

ArbitrationContract_vote ==
    \E dispute_id \in DisputeIds,
       choice \in {"InFavorOfClaimant"},
       gas_limit \in GasInputs :
        LET params == [dispute_id |-> dispute_id, choice |-> choice]
        IN  DoneAny("ArbitrationContract.vote",
                     [params |-> params, gas_limit |-> gas_limit],
                     {vote(arbitration, params, gas_limit, env) : env \in TransportEnvs})

ArbitrationContract_finalize_dispute ==
    \E dispute_id \in DisputeIds, gas_limit \in GasInputs :
        DoneAny("ArbitrationContract.finalize_dispute",
                 [gas_limit |-> gas_limit, dispute_id |-> dispute_id],
                 {finalize_dispute(arbitration, dispute_id, gas_limit, env) : env \in TransportEnvs})

ArbitrationContract_appeal_dispute ==
    \E dispute_id \in DisputeIds, gas_limit \in GasInputs :
        DoneAny("ArbitrationContract.appeal_dispute",
                 [gas_limit |-> gas_limit, dispute_id |-> dispute_id],
                 {appeal_dispute(arbitration, dispute_id, gas_limit, env) : env \in TransportEnvs})

\* The read-only operations the main specification leaves out.
EscrowContract_get_milestone ==
    \E agreement_id \in AgreementIds :
        Done("EscrowContract.get_milestone",
             [agreement_id |-> agreement_id, milestone_index |-> 0],
             Outcome(get_milestone(escrow, agreement_id, 0), <<>>))

RegistryContract_get_profile ==
    \E account \in Accounts :
        Done("RegistryContract.get_profile", [account |-> account],
             Outcome(get_profile(registry, account), <<>>))

RegistryContract_get_review ==
    \E professional \in Accounts :
        Done("RegistryContract.get_review",
             [professional |-> professional, review_index |-> 0],
             Outcome(get_review(registry, professional, 0), <<>>))

RegistryContract_get_min_stake ==
    \E role \in {"Lawyer", "Notary"} :
        Done("RegistryContract.get_min_stake", [role |-> role],
             Outcome(get_min_stake(registry, role), <<>>))

RegistryContract_is_active_professional ==
    \E account \in Accounts :
        Done("RegistryContract.is_active_professional", [account |-> account],
             Outcome(is_active_professional(registry, account), <<>>))

ArbitrationContract_get_dispute ==
    \E dispute_id \in DisputeIds :
        Done("ArbitrationContract.get_dispute", [dispute_id |-> dispute_id],
             Outcome(get_dispute(arbitration, dispute_id), <<>>))

ArbitrationContract_get_arbitrator ==
    \E account \in Accounts :
        Done("ArbitrationContract.get_arbitrator", [account |-> account],
             Outcome(get_arbitrator(arbitration, account), <<>>))

ArbitrationContract_get_vote ==
    \E dispute_id \in DisputeIds, arbitrator \in Accounts :
        Done("ArbitrationContract.get_vote",
             [dispute_id |-> dispute_id, arbitrator |-> arbitrator],
             Outcome(get_vote(arbitration, dispute_id, arbitrator), <<>>))

ArbitrationContract_is_active_arbitrator ==
    \E account \in Accounts :
        Done("ArbitrationContract.is_active_arbitrator", [account |-> account],
             Outcome(is_active_arbitrator(arbitration, account), <<>>))

\* The calls _encode_call is handed: a method name and its arguments, as the
\* mutating operations pass them, with ratings on both sides of the range.
EncodeInputs ==
    {[args |-> <<professional, rating, "Great">>, method |-> "submit_review"] :
        professional \in Accounts, rating \in Ratings}
    \cup {[args |-> <<"0", i>>, method |-> "complete_milestone"] : i \in 0..MaxMilestones}
    \cup {[args |-> <<"0">>, method |-> "start_voting"],
          [args |-> <<>>, method |-> "withdraw_stake"]}

EscrowContract__encode_call ==
    \E c \in EncodeInputs :
        Done("EscrowContract._encode_call", c,
             Outcome(_encode_call(escrow, c.method, c.args), <<>>))

RegistryContract__encode_call ==
    \E c \in EncodeInputs :
        Done("RegistryContract._encode_call", c,
             Outcome(_encode_call(registry, c.method, c.args), <<>>))

ArbitrationContract__encode_call ==
    \E c \in EncodeInputs :
        Done("ArbitrationContract._encode_call", c,
             Outcome(_encode_call(arbitration, c.method, c.args), <<>>))

-----------------------------------------------------------------------------
(* The client called from two threads.  A thread runs one call, statement  *)
(* by statement; between two statements of one thread the other may run.   *)

ThreadFrame == <<calls, last, node, glin, other>>

\* Thread t goes to statement pc.
Goto(t, pc) == threads' = [threads EXCEPT ![t].pc = pc]

\* Thread t calls GlinContracts.set_keypair(kp).
Thread_call_set_keypair(t) ==
    /\ threads[t].pc = "idle"
    /\ \E kp \in Keypairs :
          threads' = [threads EXCEPT ![t].pc = "self.keypair", ![t].arg = kp]
    /\ UNCHANGED <<Wrappers, ThreadFrame>>

\* GlinContracts.set_keypair run as one indivisible step.
Thread_set_keypair_atomic(t) ==
    /\ threads[t].pc = "self.keypair"
    /\ keypair' = threads[t].arg
    /\ escrow' = set_keypair(escrow, threads[t].arg)
    /\ registry' = set_keypair(registry, threads[t].arg)
    /\ arbitration' = set_keypair(arbitration, threads[t].arg)
    /\ Goto(t, "returned")
    /\ calls' = <<>>
    /\ last' = Returned("GlinContracts.set_keypair", [keypair |-> threads[t].arg], None)
    /\ UNCHANGED <<node, glin, other>>

\* The four statements of GlinContracts.set_keypair, run by thread t:
\* self.keypair = keypair; self.escrow.set_keypair(keypair);
\* self.registry.set_keypair(keypair); self.arbitration.set_keypair(keypair).
Thread_set_keypair(t) ==
    \/ /\ threads[t].pc = "self.keypair"
       /\ keypair' = threads[t].arg
       /\ Goto(t, "self.escrow")
       /\ UNCHANGED <<escrow, registry, arbitration, ThreadFrame>>
    \/ /\ threads[t].pc = "self.escrow"
       /\ escrow' = set_keypair(escrow, threads[t].arg)
       /\ Goto(t, "self.registry")
       /\ UNCHANGED <<keypair, registry, arbitration, ThreadFrame>>
    \/ /\ threads[t].pc = "self.registry"
       /\ registry' = set_keypair(registry, threads[t].arg)
       /\ Goto(t, "self.arbitration")
       /\ UNCHANGED <<keypair, escrow, arbitration, ThreadFrame>>
    \/ /\ threads[t].pc = "self.arbitration"
       /\ arbitration' = set_keypair(arbitration, threads[t].arg)
       /\ Goto(t, "returned")
       /\ calls' = <<>>
       /\ last' = Returned("GlinContracts.set_keypair", [keypair |-> threads[t].arg], None)
       /\ UNCHANGED <<keypair, escrow, registry, node, glin, other>>

\* The review the threads submit.
ThreadReview ==
    [params |-> [rating |-> MaxRating, professional |-> "5Prof...", comment |-> "Great"],
     gas_limit |-> NoneInt]

\* Thread t calls registry.submit_review(params); `env` is what the transport
\* will do to the call.
Thread_call_submit_review(t) ==
    /\ threads[t].pc = "idle"
    /\ \E env \in TransportEnvs :
          threads' = [threads EXCEPT ![t].pc = "if not self.contract_address",
                                     ![t].env = env]
    /\ UNCHANGED <<Wrappers, ThreadFrame>>

\* Thread t returns from submit_review with result r, having made the calls
\* `made`.
ThreadReturns(t, r, made) ==
    /\ threads' = [threads EXCEPT ![t].pc = "returned", ![t].made = made]
    /\ calls' = made
    /\ last' = IF r.outcome = "raised"
               THEN Raised("RegistryContract.submit_review", ThreadReview, r.exception)
               ELSE Returned("RegistryContract.submit_review", ThreadReview, r.result)
    /\ UNCHANGED <<Wrappers, node, glin, other>>

\* The transport calls submit_review makes on the registry wrapper as it is
\* now: each statement of the thread reads self again.
ThreadSubmit(t) ==
    Submit(registry, Literal(0), IntOr(ThreadReview.gas_limit, 50), 50000,
           _encode_call(registry, "submit_review",
                        <<ThreadReview.params.professional, ThreadReview.params.rating,
                          ThreadReview.params.comment>>),
           threads[t].env)

\* The statements of RegistryContract.submit_review, run by thread t: the two
\* checks, then compose_call, create_signed_extrinsic(keypair=self.keypair)
\* and submit_extrinsic inside the try block.
Thread_submit_review(t) ==
    \/ /\ threads[t].pc = "if not self.contract_address"
       /\ IF ~Truthy(registry.contract_address)
          THEN ThreadReturns(t, Outcome(ContractResult(FALSE, None, ERR_NOT_INITIALIZED), <<>>), <<>>)
          ELSE Goto(t, "if not self.keypair") /\ UNCHANGED <<Wrappers, ThreadFrame>>
    \/ /\ threads[t].pc = "if not self.keypair"
       /\ IF registry.keypair = None
          THEN ThreadReturns(t, Outcome(ContractResult(FALSE, None, ERR_NO_KEYPAIR), <<>>), <<>>)
          ELSE /\ threads' = [threads EXCEPT ![t].pc = "compose_call",
                                             ![t].checked = registry.keypair]
               /\ UNCHANGED <<Wrappers, ThreadFrame>>
    \/ /\ threads[t].pc = "compose_call"
       /\ LET r == ThreadSubmit(t)
          IN  IF Len(r.calls) = 1
              THEN ThreadReturns(t, ExceptException(r), r.calls)
              ELSE /\ threads' = [threads EXCEPT ![t].pc = "create_signed_extrinsic",
                                                 ![t].made = SubSeq(r.calls, 1, 1)]
                   /\ UNCHANGED <<Wrappers, ThreadFrame>>
    \/ /\ threads[t].pc = "create_signed_extrinsic"
       /\ LET r == ThreadSubmit(t)
              made == Append(threads[t].made, r.calls[2])
          IN  IF Len(r.calls) = 2
              THEN ThreadReturns(t, ExceptException(r), made)
              ELSE /\ threads' = [threads EXCEPT ![t].pc = "submit_extrinsic",
                                                 ![t].made = made]
                   /\ UNCHANGED <<Wrappers, ThreadFrame>>
    \/ /\ threads[t].pc = "submit_extrinsic"
       /\ LET r == Try(registry, Literal(0), IntOr(ThreadReview.gas_limit, 50), 50000,
                       <<>>, threads[t].env, None)
          IN  ThreadReturns(t, r, Append(threads[t].made, r.calls[3]))

NextThreads ==
    \/ \E t \in Threads : Thread_call_set_keypair(t)
    \/ \E t \in Threads : Thread_set_keypair(t)
    \/ \E t \in Threads : Thread_call_submit_review(t)
    \/ \E t \in Threads : Thread_submit_review(t)

SpecThreads == Init /\ [][NextThreads]_vars

-----------------------------------------------------------------------------
\* The node's contract storage changes under the SDK: other accounts write it,
\* and the node may stop answering.
NodeStorageChanges ==
    /\ node' \in NodeStates \ {node}
    /\ UNCHANGED <<Wrappers, calls, last, threads, glin, other>>

Next ==
    \/ \E kp \in OptKeypairs : GlinContracts_set_keypair(kp)
    \/ GlinContracts_is_contract
    \/ GlinContracts_get_contract_balance
    \/ EscrowContract_set_contract_address
    \/ RegistryContract_set_contract_address
    \/ ArbitrationContract_set_contract_address
    \/ EscrowContract_create_agreement
    \/ EscrowContract_complete_milestone
    \/ EscrowContract_approve_and_release
    \/ EscrowContract_raise_dispute
    \/ EscrowContract_resolve_dispute
    \/ EscrowContract_get_agreement
    \/ EscrowContract_get_milestone_count
    \/ RegistryContract_register
    \/ RegistryContract_increase_stake
    \/ RegistryContract_submit_review
    \/ RegistryContract_withdraw_stake
    \/ RegistryContract_get_review_count
    \/ ArbitrationContract_register_arbitrator
    \/ ArbitrationContract_increase_arbitrator_stake
    \/ ArbitrationContract_create_dispute
    \/ ArbitrationContract_start_voting
    \/ ArbitrationContract_vote
    \/ ArbitrationContract_finalize_dispute
    \/ ArbitrationContract_appeal_dispute

\* The client used through GlinContracts: the signing identity is switched
\* with GlinContracts.set_keypair only.
Spec == Init /\ [][Next]_vars

\* The setters alone, the wrappers' own set_keypair included: a wrapper reached
\* through client.escrow, client.registry or client.arbitration is set directly.
NextSetters ==
    \/ \E kp \in OptKeypairs : GlinContracts_set_keypair(kp)
    \/ EscrowContract_set_keypair
    \/ RegistryContract_set_keypair
    \/ ArbitrationContract_set_keypair
    \/ EscrowContract_set_contract_address
    \/ RegistryContract_set_contract_address
    \/ ArbitrationContract_set_contract_address

SpecSetters == Init /\ [][NextSetters]_vars

\* The read-only operations of the three wrappers and of the client's
\* get_contract_info, on every state of the
\* node's storage and with the wrappers' addresses set and unset.
NextReads ==
    \/ NodeStorageChanges
    \/ EscrowContract_set_contract_address
    \/ RegistryContract_set_contract_address
    \/ ArbitrationContract_set_contract_address
    \/ EscrowContract_get_agreement
    \/ EscrowContract_get_milestone
    \/ EscrowContract_get_milestone_count
    \/ RegistryContract_get_profile
    \/ RegistryContract_get_review
    \/ RegistryContract_get_review_count
    \/ RegistryContract_get_min_stake
    \/ RegistryContract_is_active_professional
    \/ ArbitrationContract_get_dispute
    \/ ArbitrationContract_get_arbitrator
    \/ ArbitrationContract_get_vote
    \/ ArbitrationContract_is_active_arbitrator
    \/ GlinContracts_get_contract_info

SpecReads == Init /\ [][NextReads]_vars

\* _encode_call of the three wrappers, called on its own, between changes of
\* the wrappers' keypair and address.
NextEncode ==
    \/ \E kp \in OptKeypairs : GlinContracts_set_keypair(kp)
    \/ EscrowContract_set_contract_address
    \/ RegistryContract_set_contract_address
    \/ ArbitrationContract_set_contract_address
    \/ EscrowContract__encode_call
    \/ RegistryContract__encode_call
    \/ ArbitrationContract__encode_call

SpecEncode == Init /\ [][NextEncode]_vars

RegistryContract_get_all_reviews ==
    \E professional \in Accounts :
        Done("RegistryContract.get_all_reviews", [professional |-> professional],
             Outcome(get_all_reviews(registry, professional), <<>>))

-----------------------------------------------------------------------------
(* The second client: the same classes, another object *)

\* other.set_keypair(kp)
Other_set_keypair ==
    \E kp \in OptKeypairs :
        /\ other' = [keypair |-> kp,
                     escrow |-> set_keypair(other.escrow, kp),
                     registry |-> set_keypair(other.registry, kp),
                     arbitration |-> set_keypair(other.arbitration, kp)]
        /\ calls' = <<>>
        /\ last' = Returned("other.set_keypair", [keypair |-> kp], None)
        /\ UNCHANGED <<Wrappers, node, threads, glin>>

\* other.registry.submit_review(params)
Other_submit_review ==
    \E env \in TransportEnvs :
        LET r == submit_review(other.registry, ThreadReview.params,
                               ThreadReview.gas_limit, env)
        IN  /\ calls' = r.calls
            /\ last' = IF r.outcome = "raised"
                       THEN Raised("other.registry.submit_review", ThreadReview, r.exception)
                       ELSE Returned("other.registry.submit_review", ThreadReview, r.result)
            /\ UNCHANGED <<Wrappers, node, threads, glin, other>>

\* One client with a keypair and its three addresses, and the second client.
InitFrame ==
    /\ Init
    /\ keypair = "alice"
    /\ \A w \in {escrow, registry, arbitration} : w.contract_address = "5Contract..."

\* Every operation of the wrappers on the first client, and the second client
\* used next to it.
NextFrame ==
    \/ \E kp \in OptKeypairs : GlinContracts_set_keypair(kp)
    \/ EscrowContract_set_contract_address
    \/ EscrowContract_create_agreement
    \/ EscrowContract_complete_milestone
    \/ EscrowContract_approve_and_release
    \/ EscrowContract_raise_dispute
    \/ EscrowContract_resolve_dispute
    \/ RegistryContract_register
    \/ RegistryContract_increase_stake
    \/ RegistryContract_submit_review
    \/ RegistryContract_withdraw_stake
    \/ ArbitrationContract_register_arbitrator
    \/ ArbitrationContract_increase_arbitrator_stake
    \/ ArbitrationContract_create_dispute
    \/ ArbitrationContract_start_voting
    \/ ArbitrationContract_vote
    \/ ArbitrationContract_finalize_dispute
    \/ ArbitrationContract_appeal_dispute
    \/ EscrowContract_get_agreement
    \/ EscrowContract_get_milestone
    \/ EscrowContract_get_milestone_count
    \/ RegistryContract_get_profile
    \/ RegistryContract_get_review
    \/ RegistryContract_get_review_count
    \/ RegistryContract_get_min_stake
    \/ RegistryContract_is_active_professional
    \/ RegistryContract_get_all_reviews
    \/ ArbitrationContract_get_dispute
    \/ ArbitrationContract_get_arbitrator
    \/ ArbitrationContract_get_vote
    \/ ArbitrationContract_is_active_arbitrator
    \/ EscrowContract__encode_call
    \/ RegistryContract__encode_call
    \/ ArbitrationContract__encode_call
    \/ Other_set_keypair
    \/ Other_submit_review

SpecFrame == InitFrame /\ [][NextFrame]_vars

\* The read-only operations between changes of keypair and address and the
\* mutating operations whose records they would read.
NextDefaults ==
    \/ \E kp \in OptKeypairs : GlinContracts_set_keypair(kp)
    \/ EscrowContract_set_contract_address
    \/ RegistryContract_set_contract_address
    \/ ArbitrationContract_set_contract_address
    \/ EscrowContract_create_agreement
    \/ RegistryContract_submit_review
    \/ EscrowContract_get_agreement
    \/ EscrowContract_get_milestone
    \/ EscrowContract_get_milestone_count
    \/ RegistryContract_get_profile
    \/ RegistryContract_get_review
    \/ RegistryContract_get_review_count
    \/ RegistryContract_get_min_stake
    \/ RegistryContract_is_active_professional
    \/ RegistryContract_get_all_reviews
    \/ ArbitrationContract_get_dispute
    \/ ArbitrationContract_get_arbitrator
    \/ ArbitrationContract_get_vote
    \/ ArbitrationContract_is_active_arbitrator

SpecDefaults == Init /\ [][NextDefaults]_vars

-----------------------------------------------------------------------------
(* GlinClient (glin_sdk/client.py): the connection it holds, and its       *)
(* queries.  SubstrateInterface(url=...) either connects or raises, and so *)
(* does close(); a query raises, returns None, or returns a result whose   *)
(* value is None, is well formed, or is malformed.                         *)

ConnectEnvs == {"connects", "refused"}
CloseEnvs == {"closes", "raises"}
GlinQueryEnvs == QueryEnvs \cup {"value_malformed"}

\* str(e) of what SubstrateInterface(url=...) and close() raise.
ERR_CONNECT == "Connection refused"
ERR_CLOSE == "close failed"
\* str(e) of the KeyError of data["free"] on an account record without it.
ERR_KEY_FREE == "'free'"

\* What a call leaves: the client after it, and how the call ended.
Left(self, r) == [glin |-> self, r |-> r]

\* connect: `if not self.substrate: self.substrate = SubstrateInterface(...)`.
connect(self, env) ==
    IF self.substrate # NoneInt THEN Left(self, Outcome(None, <<>>))
    ELSE IF env = "refused" THEN Left(self, Raise(ERR_CONNECT, <<>>))
    ELSE Left([substrate |-> SomeInt(Len(self.connections) + 1),
               connections |-> Append(self.connections, "open")],
              Outcome(None, <<>>))

\* disconnect that forgets the connection it holds and does not close it.
disconnect_without_close(self, env) ==
    Left([substrate |-> NoneInt, connections |-> self.connections],
         Outcome(None, <<>>))

\* disconnect: `if self.substrate: self.substrate.close();
\* self.substrate = None`.  A close() that raises leaves the connection held.
disconnect(self, env) ==
    IF self.substrate = NoneInt THEN Left(self, Outcome(None, <<>>))
    ELSE IF env = "raises" THEN Left(self, Raise(ERR_CLOSE, <<>>))
    ELSE LET i == CHOOSE n \in self.substrate : TRUE
         IN  Left([substrate |-> NoneInt,
                   connections |-> [self.connections EXCEPT ![i] = "closed"]],
                  Outcome(None, <<>>))

\* _ensure_connected: `if not self.substrate: self.connect()`.
_ensure_connected(self, env) ==
    IF self.substrate = NoneInt THEN connect(self, env)
    ELSE Left(self, Outcome(None, <<>>))

\* __enter__: connect, then `return self`.
__enter__(self, env) ==
    LET c == connect(self, env)
    IN  IF c.r.outcome = "raised" THEN c
        ELSE Left(c.glin, Outcome("self", <<>>))

\* __exit__: disconnect.
__exit__(self, env) == disconnect(self, env)

\* d.get(key, default) of a dict.
Get(d, key, default) == IF key \in DOMAIN d THEN d[key] ELSE default

\* The Balance get_balance builds from the account data.
Balance(data) ==
    [free |-> str(data.free),
     reserved |-> str(data.reserved),
     frozen |-> str(Get(data, "frozen", Get(data, "miscFrozen", 0))),
     total |-> str(data.free + data.reserved)]

\* get_balance: _ensure_connected, the query of System.Account and the
\* Balance of result.value["data"], with no try block.
get_balance(self, address, cenv, env, data) ==
    LET c == _ensure_connected(self, cenv)
        made == <<QueryCall("System", "Account", <<address>>, env)>>
    IN  IF c.r.outcome = "raised" THEN c
        ELSE Left(c.glin,
                  CASE env = "raises" -> Raise(ExceptionText("query"), made)
                    [] env = "returns_none" -> Raise(ERR_NONE_ATTRIBUTE, made)
                    [] env = "value_none" -> Raise(ERR_NONE_SUBSCRIPT, made)
                    [] env = "value_malformed" -> Raise(ERR_KEY_FREE, made)
                    [] env = "value_present" -> Outcome(Balance(data), made))

\* The statements of a try block that reads one record: the query, the
\* `if result.value is None: return None`, and the conversion `convert` of
\* the record.  Optional[record]: None is <<>>, the record r is <<r>>.
TryQuery(module, storage_function, key, env, converted) ==
    LET made == <<QueryCall(module, storage_function, <<key>>, env)>>
    IN  CASE env = "raises" -> Raise(ExceptionText("query"), made)
          [] env = "returns_none" -> Raise(ERR_NONE_ATTRIBUTE, made)
          [] env = "value_none" -> Outcome(<<>>, made)
          [] OTHER -> IF converted.ok THEN Outcome(<<converted.v>>, made)
                      ELSE Raise(ERR_INT, made)

\* `except Exception as e: print(...); return None`.
ExceptReturnsNone(r) ==
    IF r.outcome = "raised" THEN Outcome(<<>>, r.calls) ELSE r

\* ChainTask(...) of the task record: int() of the two provider counts may
\* raise.
ChainTask(task_id, task_data) ==
    LET lo == int(task_data.minProviders)
        hi == int(task_data.maxProviders)
    IN  IF lo.ok /\ hi.ok
        THEN [ok |-> TRUE,
              v |-> [id |-> task_id,
                     creator |-> task_data.creator,
                     bounty |-> str(task_data.bounty),
                     min_providers |-> lo.v,
                     max_providers |-> hi.v,
                     ipfs_hash |-> task_data.ipfsHash,
                     status |-> task_data.status]]
        ELSE [ok |-> FALSE, v |-> 0]

\* ChainProvider(...) of the provider record: int() of the reputation score
\* may raise.
ChainProvider(address, provider_data) ==
    LET score == int(provider_data.reputationScore)
    IN  IF score.ok
        THEN [ok |-> TRUE,
              v |-> [account |-> address,
                     status |-> provider_data.status,
                     stake |-> str(provider_data.stake),
                     reputation_score |-> score.v,
                     hardware_tier |-> provider_data.hardwareTier,
                     is_slashed |-> provider_data.isSlashed]]
        ELSE [ok |-> FALSE, v |-> 0]

\* get_task with no handler around its try block.
get_task_without_except(self, task_id, cenv, env, task_data) ==
    LET c == _ensure_connected(self, cenv)
    IN  IF c.r.outcome = "raised" THEN c
        ELSE Left(c.glin,
                  TryQuery("TaskRegistry", "Tasks", task_id, env,
                           ChainTask(task_id, task_data)))

\* get_task: _ensure_connected, then the try block and its handler.
get_task(self, task_id, cenv, env, task_data) ==
    LET c == _ensure_connected(self, cenv)
    IN  IF c.r.outcome = "raised" THEN c
        ELSE Left(c.glin,
                  ExceptReturnsNone(
                      TryQuery("TaskRegistry", "Tasks", task_id, env,
                               ChainTask(task_id, task_data))))

\* get_provider: _ensure_connected, then the try block and its handler.
get_provider(self, address, cenv, env, provider_data) ==
    LET c == _ensure_connected(self, cenv)
    IN  IF c.r.outcome = "raised" THEN c
        ELSE Left(c.glin,
                  ExceptReturnsNone(
                      TryQuery("ProviderStaking", "Providers", address, env,
                               ChainProvider(address, provider_data))))

\* get_block_number: _ensure_connected, get_block_header() and the number
\* of the header, with no try block.
get_block_number(self, cenv, env, number) ==
    LET c == _ensure_connected(self, cenv)
        made == <<[method |-> "get_block_header", raised |-> (env = "raises")]>>
    IN  IF c.r.outcome = "raised" THEN c
        ELSE Left(c.glin,
                  IF env = "raises"
                  THEN Raise("get_block_header failed", made)
                  ELSE Outcome(number, made))

\* The records the node answers with, well formed and malformed.
AccountData(free) == [free |-> free, reserved |-> 2]
TaskData(env) ==
    [minProviders |-> IF env = "value_malformed" THEN <<"x">> ELSE <<"1">>,
     maxProviders |-> <<"3">>,
     creator |-> "5Creator...",
     bounty |-> 100,
     ipfsHash |-> "Qm...",
     status |-> "Pending"]
ProviderData(env) ==
    [status |-> "Active",
     reputationScore |-> IF env = "value_malformed" THEN <<"x">> ELSE <<"9", "0">>,
     stake |-> 100,
     hardwareTier |-> "Pro",
     isSlashed |-> FALSE]

\* An operation of GlinClient that ended as `left` tells.
GlinDone(op, args, left) ==
    /\ Len(left.glin.connections) <= MaxConnections
    /\ glin' = left.glin
    /\ calls' = left.r.calls
    /\ last' = IF left.r.outcome = "raised"
               THEN Raised(op, args, left.r.exception)
               ELSE Returned(op, args, left.r.result)
    /\ UNCHANGED <<Wrappers, node, threads, other>>

GlinClient_connect ==
    \E cenv \in ConnectEnvs :
        GlinDone("GlinClient.connect", <<>>, connect(glin, cenv))

GlinClient_disconnect ==
    \E env \in CloseEnvs :
        GlinDone("GlinClient.disconnect", <<>>, disconnect(glin, env))

GlinClient___enter__ ==
    \E cenv \in ConnectEnvs :
        GlinDone("GlinClient.__enter__", <<>>, __enter__(glin, cenv))

GlinClient___exit__ ==
    \E env \in CloseEnvs :
        GlinDone("GlinClient.__exit__", <<>>, __exit__(glin, env))

GlinClient_get_balance ==
    \E address \in {"5Alice...", "5Bob..."}, cenv \in ConnectEnvs,
       env \in GlinQueryEnvs, free \in {0, MaxBalance} :
        /\ env # "value_present" => free = 0
        /\ GlinDone("GlinClient.get_balance", [address |-> address],
                    get_balance(glin, address, cenv, env, AccountData(free)))

GlinClient_get_task ==
    \E task_id \in {"task-1", "task-2"}, cenv \in ConnectEnvs, env \in GlinQueryEnvs :
        GlinDone("GlinClient.get_task", [task_id |-> task_id],
                 get_task(glin, task_id, cenv, env, TaskData(env)))

GlinClient_get_provider ==
    \E address \in {"5Alice...", "5Bob..."}, cenv \in ConnectEnvs, env \in GlinQueryEnvs :
        GlinDone("GlinClient.get_provider", [address |-> address],
                 get_provider(glin, address, cenv, env, ProviderData(env)))

GlinClient_get_block_number ==
    \E cenv \in ConnectEnvs, env \in {"raises", "value_present"} :
        GlinDone("GlinClient.get_block_number", <<>>,
                 get_block_number(glin, cenv, env, 7))

NextGlinClient ==
    \/ GlinClient_connect
    \/ GlinClient_disconnect
    \/ GlinClient___enter__
    \/ GlinClient___exit__
    \/ GlinClient_get_balance
    \/ GlinClient_get_task
    \/ GlinClient_get_provider
    \/ GlinClient_get_block_number

\* GlinClient alone, next to one contracts client that is left as it is.
SpecGlinClient == InitFrame /\ [][NextGlinClient]_vars

-----------------------------------------------------------------------------
(* The operations by name, for the properties *)

EscrowMutatingOps ==
    {"EscrowContract.create_agreement", "EscrowContract.complete_milestone",
     "EscrowContract.approve_and_release", "EscrowContract.raise_dispute",
     "EscrowContract.resolve_dispute"}

RegistryMutatingOps ==
    {"RegistryContract.register", "RegistryContract.increase_stake",
     "RegistryContract.submit_review", "RegistryContract.withdraw_stake"}

ArbitrationMutatingOps ==
    {"ArbitrationContract.register_arbitrator",
     "ArbitrationContract.increase_arbitrator_stake",
     "ArbitrationContract.create_dispute", "ArbitrationContract.start_voting",
     "ArbitrationContract.vote", "ArbitrationContract.finalize_dispute",
     "ArbitrationContract.appeal_dispute"}

MutatingOps == EscrowMutatingOps \cup RegistryMutatingOps \cup ArbitrationMutatingOps

\* The wrapper the last operation was called on.
Target ==
    IF last.op \in EscrowMutatingOps \cup {"EscrowContract.set_contract_address"}
    THEN escrow
    ELSE IF last.op \in RegistryMutatingOps \cup {"RegistryContract.set_contract_address"}
    THEN registry
    ELSE arbitration

\* The last operation made no compose_call, create_signed_extrinsic or
\* submit_extrinsic.
NoTransport == calls = <<>>

Failed(text) == last.outcome = "returned" /\ last.result = ContractResult(FALSE, None, text)

-----------------------------------------------------------------------------
(* C1 *)

\* C1: right after GlinContracts is constructed with keypair k, and right after
\* every GlinContracts.set_keypair(k) (k a keypair or None, whatever setters ran
\* before), the client and its escrow, registry and arbitration wrappers all
\* hold k.
C1_KeypairPropagated ==
    last.op \in {"GlinContracts.__init__", "GlinContracts.set_keypair"} =>
        /\ keypair = last.args.keypair
        /\ escrow.keypair = last.args.keypair
        /\ registry.keypair = last.args.keypair
        /\ arbitration.keypair = last.args.keypair

C1_Witness ==
    /\ last.op = "GlinContracts.set_keypair"
    /\ last.args.keypair = "bob"
    /\ keypair = "bob" /\ escrow.keypair = "bob"
    /\ registry.keypair = "bob" /\ arbitration.keypair = "bob"

-----------------------------------------------------------------------------
(* C2 *)

\* C2: right after construction, the wrapper of every contract whose address
\* was not supplied is None.
C2_UnsuppliedWrapperIsNone ==
    last.op = "GlinContracts.__init__" =>
        /\ last.args.escrow_address = None => escrow = NoneObject
        /\ last.args.registry_address = None => registry = NoneObject
        /\ last.args.arbitration_address = None => arbitration = NoneObject

-----------------------------------------------------------------------------
(* C3 *)

\* C3: submit_review on a registry wrapper with an address and a keypair: a
\* rating below 1 or above 5 returns success=False with the rating error and
\* makes no transport call; a rating in 1..5 is not rejected and the call goes
\* on to compose_call, and to submit_extrinsic unless a transport call raises.
C3_RatingValidated ==
    (/\ last.op = "RegistryContract.submit_review"
     /\ Truthy(registry.contract_address)
     /\ registry.keypair # None) =>
        IF last.args.params.rating < 1 \/ last.args.params.rating > 5
        THEN Failed("Rating must be between 1 and 5") /\ NoTransport
        ELSE /\ last.outcome = "returned"
             /\ last.result.error # "Rating must be between 1 and 5"
             /\ Len(calls) >= 1
             /\ calls[1].method = "compose_call"
             /\ (\A i \in 1..Len(calls) : ~calls[i].raised) =>
                    /\ Len(calls) = 3
                    /\ calls[3].method = "submit_extrinsic"

C3_Witness ==
    /\ last.op = "RegistryContract.submit_review"
    /\ last.args.params.rating = 5
    /\ Len(calls) = 3
    /\ last.outcome = "returned"
    /\ last.result.success

-----------------------------------------------------------------------------
(* C4 *)

\* The amount string of a payable operation.
AmountOf ==
    CASE last.op = "EscrowContract.create_agreement" -> last.args.params.value
      [] last.op = "RegistryContract.register" -> last.args.params.stake_amount
      [] last.op = "RegistryContract.increase_stake" -> last.args.additional_stake
      [] last.op = "ArbitrationContract.register_arbitrator" -> last.args.stake_amount
      [] last.op = "ArbitrationContract.increase_arbitrator_stake" ->
            last.args.additional_stake

PayableOps ==
    {"EscrowContract.create_agreement", "RegistryContract.register",
     "RegistryContract.increase_stake", "ArbitrationContract.register_arbitrator",
     "ArbitrationContract.increase_arbitrator_stake"}

\* C4: every mutating operation returns a ContractResult and never raises; when
\* a transport call raised, or the amount is no integer literal, the result is
\* ContractResult(success=False, error=<text of the exception>).
C4_MutatingNeverRaises ==
    last.op \in MutatingOps =>
        /\ last.outcome = "returned"
        /\ DOMAIN last.result =
              {"success", "data", "error", "gas_consumed", "storage_deposit"}
        /\ last.result.success \in BOOLEAN
        /\ \A i \in 1..Len(calls) :
              calls[i].raised => Failed(ExceptionText(calls[i].method))
        /\ (/\ last.op \in PayableOps
            /\ AmountOf \in {<<"1", "x">>, <<>>}
            /\ Truthy(Target.contract_address)
            /\ Target.keypair # None) =>
               Failed("invalid literal for int() with base 10") /\ NoTransport

C4_Witness ==
    /\ last.op = "EscrowContract.create_agreement"
    /\ Len(calls) = 3
    /\ calls[3].raised
    /\ Failed("submit_extrinsic failed")

-----------------------------------------------------------------------------
(* C5 *)

IdentifierOps ==
    {"EscrowContract.create_agreement", "ArbitrationContract.create_dispute",
     "ArbitrationContract.finalize_dispute"}

\* C5: whenever create_agreement, create_dispute or finalize_dispute returns
\* success=True, its data holds the identifier or resolution taken from the
\* receipt: a success is never reported with data None.
C5_SuccessCarriesIdentifier ==
    (/\ last.op \in IdentifierOps
     /\ last.outcome = "returned"
     /\ last.result.success) =>
        last.result.data # None

-----------------------------------------------------------------------------
(* C6 *)

\* C6: read-your-writes.  A submit_review that returns success for professional
\* P makes get_review_count(P) one greater than it was before the call; a
\* create_agreement with n milestones that returns success makes get_agreement
\* of the returned id not None and get_milestone_count of that id equal to n.
C6_Step ==
    /\ (/\ last'.op = "RegistryContract.submit_review"
        /\ last'.outcome = "returned"
        /\ last'.result.success) =>
          get_review_count(registry', last'.args.params.professional)
              = get_review_count(registry, last'.args.params.professional) + 1
    /\ (/\ last'.op = "EscrowContract.create_agreement"
        /\ last'.outcome = "returned"
        /\ last'.result.success) =>
          /\ get_agreement(escrow', last'.result.data) # None
          /\ get_milestone_count(escrow', last'.result.data)
                = Len(last'.args.params.milestone_descriptions)

C6_ReadYourWrites == [][C6_Step]_vars

-----------------------------------------------------------------------------
(* C7 *)

\* C7: a mutating operation returns success=False with "Contract not
\* initialized", having made no transport call, exactly when the wrapper's
\* contract_address is None or empty, whatever the keypair and the rating; and
\* the address is the one last given to set_contract_address.
C7_NotInitialized ==
    /\ last.op \in MutatingOps =>
          ((Failed("Contract not initialized") /\ NoTransport)
              <=> (Target.contract_address = None \/ Target.contract_address = ""))
    /\ last.op \in {"EscrowContract.set_contract_address",
                    "RegistryContract.set_contract_address",
                    "ArbitrationContract.set_contract_address"} =>
          Target.contract_address = last.args.address

C7_Witness ==
    /\ last.op = "RegistryContract.submit_review"
    /\ registry.contract_address = ""
    /\ registry.keypair = None
    /\ last.args.params.rating = 0
    /\ Failed("Contract not initialized")
    /\ NoTransport

-----------------------------------------------------------------------------
(* C8 *)

\* A mutating operation on a wrapper that has an address and no keypair fails
\* with "Keypair not set" and makes no transport call; construction without a
\* keypair and GlinContracts.set_keypair(None) leave every wrapper without one.
C8_State ==
    /\ (/\ last.op \in MutatingOps
        /\ Truthy(Target.contract_address)
        /\ Target.keypair = None) =>
           Failed("Keypair not set") /\ NoTransport
    /\ (/\ last.op \in {"GlinContracts.__init__", "GlinContracts.set_keypair"}
        /\ last.args.keypair = None) =>
           escrow.keypair = None /\ registry.keypair = None /\ arbitration.keypair = None

\* A wrapper without a keypair gets one only by set_keypair with a keypair.
C8_Step ==
    (\/ escrow.keypair = None /\ escrow'.keypair # None
     \/ registry.keypair = None /\ registry'.keypair # None
     \/ arbitration.keypair = None /\ arbitration'.keypair # None) =>
        last'.op = "GlinContracts.set_keypair" /\ last'.args.keypair # None

\* C8: after GlinContracts.set_keypair(None), or construction without a keypair,
\* every mutating operation on a wrapper with an address returns success=False
\* with "Keypair not set" and makes no transport call, until set_keypair is
\* called with a keypair.
C8_KeypairNotSet == []C8_State /\ [][C8_Step]_vars

C8_Witness ==
    /\ last.op = "ArbitrationContract.vote"
    /\ keypair = None
    /\ arbitration.keypair = None
    /\ Truthy(arbitration.contract_address)
    /\ Failed("Keypair not set")
    /\ NoTransport

-----------------------------------------------------------------------------
(* C9 *)

-----------------------------------------------------------------------------
(* C10 *)

\* C10: get_contract_balance returns the string "0", without raising, when the
\* System.Account query fails.
C10_BalanceZeroOnFailure ==
    (/\ last.op = "GlinContracts.get_contract_balance"
     /\ calls[1].raised) =>
        last.outcome = "returned" /\ last.result = <<"0">>

-----------------------------------------------------------------------------
(* C11 *)

EscrowReadOps ==
    {"EscrowContract.get_agreement", "EscrowContract.get_milestone",
     "EscrowContract.get_milestone_count"}

RegistryReadOps ==
    {"RegistryContract.get_profile", "RegistryContract.get_review",
     "RegistryContract.get_review_count", "RegistryContract.get_min_stake",
     "RegistryContract.is_active_professional"}

ArbitrationReadOps ==
    {"ArbitrationContract.get_dispute", "ArbitrationContract.get_arbitrator",
     "ArbitrationContract.get_vote", "ArbitrationContract.is_active_arbitrator"}

ReadOps == EscrowReadOps \cup RegistryReadOps \cup ArbitrationReadOps

\* The wrapper the last read-only operation was called on.
ReadTarget ==
    IF last.op \in EscrowReadOps THEN escrow
    ELSE IF last.op \in RegistryReadOps THEN registry
    ELSE arbitration

\* The last read-only operation returned the value its return type has for
\* "nothing": None, 0, "0" or False.
ReturnedNothing ==
    /\ last.outcome = "returned"
    /\ CASE last.op \in {"EscrowContract.get_milestone_count",
                         "RegistryContract.get_review_count"} -> last.result = 0
         [] last.op = "RegistryContract.get_min_stake" -> last.result = <<"0">>
         [] last.op \in {"RegistryContract.is_active_professional",
                         "ArbitrationContract.is_active_arbitrator"} ->
               last.result = FALSE
         [] OTHER -> last.result = None

\* A step that is a read-only operation on a wrapper with an address, the
\* node's storage being as the step finds it.
C11_Step ==
    (/\ last' # last
     /\ last'.op \in ReadOps
     /\ Truthy(ReadTarget'.contract_address)) =>
        /\ node = "absent" => last'.outcome = "returned"
        /\ node \in {"corrupt", "unreachable"} => ~ReturnedNothing'

\* C11: a read-only operation on a wrapper with an address tells an absent
\* record from a failure: on an absent record it returns (not found), and on
\* undecodable storage or a node that does not answer it does not return None,
\* 0, "0" or False.
C11_AbsenceVsCorruption == [][C11_Step]_vars

-----------------------------------------------------------------------------
(* C12 *)

\* C12: every read-only operation on a wrapper with an address issues one
\* storage query to the transport, and no compose_call, create_signed_extrinsic
\* or submit_extrinsic.
C12_ReadsQueryStorage ==
    (last.op \in ReadOps /\ Truthy(ReadTarget.contract_address)) =>
        /\ \E i \in 1..Len(calls) : calls[i].method = "query"
        /\ \A i \in 1..Len(calls) :
              calls[i].method \notin {"compose_call", "create_signed_extrinsic",
                                      "submit_extrinsic"}

-----------------------------------------------------------------------------
EncodeOps ==
    {"EscrowContract._encode_call", "RegistryContract._encode_call",
     "ArbitrationContract._encode_call"}

\* C13: encoding a submit_review call fails with an encoding error for the
\* ratings 0 and 6 and succeeds for the ratings 1 and 5.
C13_RatingEncoding ==
    (/\ last.op \in EncodeOps
     /\ last.args.method = "submit_review") =>
        /\ last.args.args[2] \in {MinRating - 1, MaxRating + 1} =>
               last.outcome = "raised"
        /\ last.args.args[2] \in {MinRating, MaxRating} =>
               last.outcome = "returned"

\* The wrapper an _encode_call recorded in `last` was made on.
EncodeTarget ==
    CASE last.op = "EscrowContract._encode_call" -> escrow
      [] last.op = "RegistryContract._encode_call" -> registry
      [] last.op = "ArbitrationContract._encode_call" -> arbitration

\* C14: _encode_call is deterministic.  The bytes a call of it returns are the
\* bytes the same method name and arguments give on a wrapper with any other
\* keypair and contract address, and the bytes the call before it returned
\* for the same method name and arguments, on whichever wrapper that was.
C14_Step ==
    (last' # last /\ last'.op \in EncodeOps) =>
        /\ last'.outcome = "returned"
        /\ \A kp \in OptKeypairs, address \in AddressInputs :
              last'.result = _encode_call(Wrapper__init__(SUBSTRATE, address, kp),
                                          last'.args.method, last'.args.args)
        /\ (last.op \in EncodeOps /\ last.args = last'.args) =>
               last'.result = last.result

C14_EncodeDeterministic == [][C14_Step]_vars

\* An encoding made on a wrapper whose keypair and address have been set.
C14_Witness ==
    /\ last.op \in EncodeOps
    /\ last.outcome = "returned"
    /\ EncodeTarget.keypair # None
    /\ Truthy(EncodeTarget.contract_address)
    /\ last.args.method = "submit_review"

\* C15: the data of every contract call that was submitted is not empty: it
\* begins with the selector of the called method, and the encoded arguments
\* follow.
C15_PayloadHasSelector ==
    (/\ last.op \in MutatingOps
     /\ \E i \in 1..Len(calls) : calls[i].method = "submit_extrinsic") =>
        \A i \in 1..Len(calls) :
            calls[i].method = "compose_call" => calls[i].data # <<>>

\* The calls whose arguments the contract accepts.
ValidEncodeInputs ==
    {c \in EncodeInputs :
        c.method = "submit_review" => c.args[2] \in MinRating..MaxRating}

\* C16: the arguments of a call are recovered from their encoding.  The
\* wrappers have no decoder; decoding can give back the arguments x only if
\* no other valid arguments of the method have the encoding of x.
C16_RoundTrip ==
    (/\ last.op \in EncodeOps
     /\ last.outcome = "returned"
     /\ last.args \in ValidEncodeInputs) =>
        \A c \in ValidEncodeInputs :
            (/\ c.method = last.args.method
             /\ _encode_call(EncodeTarget, c.method, c.args) = last.result) =>
                c.args = last.args.args

\* C17: get_contract_info(address) never raises; it returns a record with the
\* address and the code hash when the node holds the contract, and None when
\* the node holds none and when the query fails.
C17_Step ==
    (last' # last /\ last'.op = "GlinContracts.get_contract_info") =>
        /\ last'.outcome = "returned"
        /\ node = "present" =>
               /\ last'.result # None
               /\ last'.result.address = last'.args.address
               /\ "code_hash" \in DOMAIN last'.result
        /\ node # "present" => last'.result = None

C17_ContractInfo == [][C17_Step]_vars

\* C18: the three wrappers hold the keypair of the client, whichever setters
\* were called, a wrapper's own set_keypair included.
C18_OneKeypair ==
    /\ escrow.keypair = keypair
    /\ registry.keypair = keypair
    /\ arbitration.keypair = keypair

-----------------------------------------------------------------------------
TransportMethods == <<"compose_call", "create_signed_extrinsic", "submit_extrinsic">>
ExtractionHelpers ==
    {"_extract_agreement_id", "_extract_dispute_id", "_extract_resolution"}

\* The transport calls of the last operation, in order.
TransportCalls ==
    SelectSeq(calls, LAMBDA c : c.method \in {TransportMethods[i] : i \in 1..3})

\* C19: the transport calls of one mutating operation are compose_call,
\* create_signed_extrinsic, submit_extrinsic in that order, each at most once,
\* and a call is made only when every call before it returned: no call follows
\* a call that raised, and the extrinsic is submitted at most once.
C19_TransportOrder ==
    last.op \in MutatingOps =>
        /\ Len(TransportCalls) <= Len(TransportMethods)
        /\ \A i \in 1..Len(TransportCalls) :
              /\ TransportCalls[i].method = TransportMethods[i]
              /\ i < Len(TransportCalls) => ~TransportCalls[i].raised

\* submit_extrinsic raised, and was not called again.
C19_Witness ==
    /\ last.op = "ArbitrationContract.vote"
    /\ Len(TransportCalls) = 3
    /\ TransportCalls[3].method = "submit_extrinsic"
    /\ TransportCalls[3].raised

\* C20: when the extrinsic was included and its receipt has is_success False,
\* a mutating operation returns ContractResult(success=False, data=None,
\* error="Transaction failed") and has called none of the helpers that read the
\* receipt's events.
C20_FailedReceipt ==
    (/\ last.op \in MutatingOps
     /\ \E i \in 1..Len(calls) :
           /\ calls[i].method = "submit_extrinsic"
           /\ ~calls[i].raised
           /\ ~calls[i].receipt.is_success) =>
        /\ Failed("Transaction failed")
        /\ \A i \in 1..Len(calls) : calls[i].method \notin ExtractionHelpers

\* create_agreement with a receipt that reports failure.
C20_Witness ==
    /\ last.op = "EscrowContract.create_agreement"
    /\ Len(calls) = 3
    /\ ~calls[3].raised
    /\ ~calls[3].receipt.is_success
    /\ Failed("Transaction failed")

-----------------------------------------------------------------------------
\* C21: the ContractResult of a mutating operation is discriminated by
\* success: with success=True the error is None, with success=False the error
\* is a description (not None) and the data is None.
C21_Discriminated ==
    (last.op \in MutatingOps /\ last.outcome = "returned") =>
        /\ last.result.success => last.result.error = None
        /\ ~last.result.success =>
               /\ last.result.error # None
               /\ last.result.data = None

\* A failure that carries the text of the exception the transport raised.
C21_Witness ==
    /\ last.op = "RegistryContract.register"
    /\ last.outcome = "returned"
    /\ ~last.result.success
    /\ last.result.error = "create_signed_extrinsic failed"
    /\ last.result.data = None

-----------------------------------------------------------------------------
\* The gas ref_time an operation uses when the caller gives none, in units
\* of 10^9.
DefaultRefTime ==
    CASE last.op = "EscrowContract.create_agreement" -> 100
      [] last.op = "ArbitrationContract.create_dispute" -> 60
      [] last.op \in {"RegistryContract.withdraw_stake",
                      "ArbitrationContract.start_voting"} -> 40
      [] last.op \in {"RegistryContract.increase_stake",
                      "ArbitrationContract.increase_arbitrator_stake"} -> 30
      [] OTHER -> 50

\* C22: the composed call of a mutating operation carries the caller's
\* gas_limit as ref_time when one is supplied, 0 included, and the operation's
\* default when it is omitted.
C22_GasLimit ==
    (/\ last.op \in MutatingOps
     /\ calls # <<>>) =>
        calls[1].ref_time =
            IF last.args.gas_limit = NoneInt THEN DefaultRefTime
            ELSE CHOOSE g \in last.args.gas_limit : TRUE

-----------------------------------------------------------------------------
\* The integer a string of decimal digits denotes: the sum of its digits, each
\* times the power of ten of its place.
RECURSIVE PowerOfTen(_)
PowerOfTen(k) == IF k = 0 THEN 1 ELSE 10 * PowerOfTen(k - 1)

RECURSIVE PlaceSum(_, _)
PlaceSum(s, i) ==
    IF i > Len(s) THEN 0
    ELSE DigitValue(s[i]) * PowerOfTen(Len(s) - i) + PlaceSum(s, i + 1)

IsDecimal(s) == s # <<>> /\ \A i \in 1..Len(s) : IsDigit(s[i])

\* C23: the value of the composed call is the integer the caller's amount
\* string denotes, digit for digit, for the five payable operations, and 0 for
\* every other mutating operation.
C23_ExactValue ==
    (/\ last.op \in MutatingOps
     /\ calls # <<>>) =>
        IF last.op \in PayableOps
        THEN IsDecimal(AmountOf) => calls[1].value = PlaceSum(AmountOf, 1)
        ELSE calls[1].value = 0

\* A stake of ten digits reaches the composed call whole.
C23_Witness ==
    /\ last.op = "RegistryContract.increase_stake"
    /\ calls # <<>>
    /\ IsDecimal(AmountOf)
    /\ Len(AmountOf) = 10
    /\ calls[1].value = 2000000025

-----------------------------------------------------------------------------
\* C24: a payable operation whose amount string is not an unsigned decimal
\* integer (it denotes a negative number, or is no decimal integer at all)
\* returns success=False and makes no create_signed_extrinsic and no
\* submit_extrinsic call.
C24_UnsignedAmount ==
    (/\ last.op \in PayableOps
     /\ ~IsDecimal(AmountOf)) =>
        /\ last.outcome = "returned"
        /\ ~last.result.success
        /\ \A i \in 1..Len(calls) :
              calls[i].method \notin {"create_signed_extrinsic", "submit_extrinsic"}

-----------------------------------------------------------------------------
\* C25: the keypair a mutating operation hands to create_signed_extrinsic is
\* the keypair that passed its "Keypair not set" check: no set_keypair takes
\* effect between the check and the signing of one operation.
C25_SignsWithCheckedKeypair ==
    \A t \in Threads :
        \A i \in 1..Len(threads[t].made) :
            threads[t].made[i].method = "create_signed_extrinsic" =>
                threads[t].made[i].keypair = threads[t].checked

-----------------------------------------------------------------------------
\* The keypair of the client and of its three wrappers.
KeypairHolders == <<keypair, escrow.keypair, registry.keypair, arbitration.keypair>>

\* C26: GlinContracts.set_keypair is not atomic.  No step of a call changes the
\* keypair of more than one of the client and its three wrappers, so calls from
\* two threads interleave between the assignments.
C26_Step ==
    Cardinality({i \in 1..4 : KeypairHolders'[i] # KeypairHolders[i]}) <= 1

C26_SetKeypairNotAtomic == [][C26_Step]_vars

\* Two set_keypair calls with different keypairs have both returned, and the
\* wrappers do not all hold the same keypair.
C26_Witness ==
    /\ \A t \in Threads : threads[t].pc = "returned" /\ threads[t].arg # None
    /\ threads["t1"].arg # threads["t2"].arg
    /\ ~(escrow.keypair = registry.keypair /\ registry.keypair = arbitration.keypair)

-----------------------------------------------------------------------------
\* The operations that set a keypair or an address on the first client.
SetterOps ==
    {"GlinContracts.set_keypair",
     "EscrowContract.set_keypair", "RegistryContract.set_keypair",
     "ArbitrationContract.set_keypair",
     "EscrowContract.set_contract_address", "RegistryContract.set_contract_address",
     "ArbitrationContract.set_contract_address"}

\* C27: a step that is no set_keypair and no set_contract_address (a mutating
\* operation, a read-only operation or _encode_call, whatever its outcome)
\* leaves the client's keypair and its three wrappers, with their keypair,
\* contract_address and substrate, as they were; and a step on one client
\* leaves the other client as it was (the setters of the second client are
\* not among the first client's, and only they write the second).
C27_Step ==
    /\ last'.op \notin SetterOps => UNCHANGED <<keypair, escrow, registry, arbitration>>
    /\ last'.op # "other.set_keypair" => UNCHANGED other

C27_OnlySettersWrite == [][C27_Step]_vars

\* A mutating operation that failed in the transport, on wrappers that still
\* hold what the setters gave them, next to a second client that was switched
\* to another keypair.
C27_Witness ==
    /\ last.op = "ArbitrationContract.vote"
    /\ last.outcome = "returned"
    /\ ~last.result.success
    /\ calls # <<>>
    /\ arbitration.keypair = "alice"
    /\ arbitration.contract_address = "5Contract..."
    /\ other.keypair = None

-----------------------------------------------------------------------------
-----------------------------------------------------------------------------
(* C29 *)

GlinQueryOps ==
    {"GlinClient.get_balance", "GlinClient.get_task", "GlinClient.get_provider",
     "GlinClient.get_block_number"}
GlinConnectOps == {"GlinClient.connect", "GlinClient.__enter__"}
GlinDisconnectOps == {"GlinClient.disconnect", "GlinClient.__exit__"}

\* The connections of the client that are open.
OpenConnections(self) ==
    {i \in 1..Len(self.connections) : self.connections[i] = "open"}

\* At most one connection is open, and an open connection is the one held.
HoldsItsOpenConnection(self) ==
    /\ Cardinality(OpenConnections(self)) <= 1
    /\ \A i \in OpenConnections(self) : self.substrate = SomeInt(i)

C29_Step ==
    /\ HoldsItsOpenConnection(glin')
    /\ Len(glin'.connections) > Len(glin.connections) =>
           /\ glin.substrate = NoneInt
           /\ glin'.connections = Append(glin.connections, "open")
    /\ last'.op \in GlinConnectOps /\ last'.outcome = "returned" =>
           /\ glin'.substrate # NoneInt
           /\ glin.substrate # NoneInt => glin' = glin
    /\ last'.op \in GlinDisconnectOps /\ last'.outcome = "returned" =>
           /\ glin'.substrate = NoneInt
           /\ glin.substrate = NoneInt => glin' = glin
           /\ \A i \in glin.substrate : glin'.connections[i] = "closed"
    /\ last'.op \in GlinQueryOps =>
           \/ glin'.substrate # NoneInt
           \/ /\ glin.substrate = NoneInt
              /\ glin' = glin
              /\ last'.outcome = "raised"
              /\ last'.exception = ERR_CONNECT

\* C29: after any sequence of connect, disconnect, the queries and the entry
\* and exit of the context manager, GlinClient has at most one open
\* connection and it is the one it holds, so none it created is dropped
\* unclosed; a connection is created only when none is held; a disconnect
\* that returns has closed the held connection and holds none, and changes
\* nothing when none was held; a query connects when none is held.
C29_OneConnection == [][C29_Step]_vars

\* A query has connected again after a disconnect closed the first connection.
C29_Witness ==
    /\ last.op \in GlinQueryOps
    /\ glin.connections = <<"closed", "open">>
    /\ glin.substrate = SomeInt(2)

-----------------------------------------------------------------------------
(* C30 *)

GlinRecordOps == {"GlinClient.get_task", "GlinClient.get_provider"}

\* C30: with a connection held, get_task and get_provider return, and they
\* return None unless the node answered with a well-formed record: when the
\* record is absent, when the query raises and when the conversion of a field
\* raises; get_balance raises what a failing query raises; and all three raise
\* what the connection raises when it cannot be established, making no query.
C30_RecordQueriesNeverRaise ==
    /\ last.op \in GlinRecordOps /\ glin.substrate # NoneInt =>
           /\ last.outcome = "returned"
           /\ Len(calls) = 1
           /\ calls[1].answer # "value_present" => last.result = <<>>
           /\ calls[1].answer = "value_present" => Len(last.result) = 1
    /\ last.op = "GlinClient.get_balance" /\ glin.substrate # NoneInt =>
           /\ Len(calls) = 1
           /\ calls[1].raised =>
                  /\ last.outcome = "raised"
                  /\ last.exception = ExceptionText("query")
    /\ last.op \in GlinRecordOps \cup {"GlinClient.get_balance"}
           /\ glin.substrate = NoneInt =>
           /\ last.outcome = "raised"
           /\ last.exception = ERR_CONNECT
           /\ calls = <<>>

\* get_task has returned None for a task whose provider count is no integer.
C30_Witness ==
    /\ last.op = "GlinClient.get_task"
    /\ calls # <<>>
    /\ calls[1].answer = "value_malformed"
    /\ last.outcome = "returned"
    /\ last.result = <<>>

=============================================================================
